---------------------------- MODULE Spec2Model ----------------------------
(***************************************************************************)
(* Model of the base32 codec of src/src/base32.cpp: the alphabet tables,   *)
(* encode, and decode with its decodePayload loop taken one iteration at   *)
(* a time.                                                                 *)
(*                                                                         *)
(* Representation.                                                         *)
(*  - A byte is 0..255.  A char is the signed 8-bit char of the build,     *)
(*    -128..127 (a byte b >= 128 of a string is the char b - 256).         *)
(*  - A std::vector / std::string is a record [size, data].  It is         *)
(*    "explicit" when Len(data) = size.  A buffer too long to enumerate is *)
(*    either "uniform" (data = <<c>>, every element is c, the buffer       *)
(*    std::string(len, c) the tests build) or "opaque" (data = << >>, only *)
(*    its size is known: the string encode returns for a uniform buffer).  *)
(*    The model never reads an element of an opaque buffer.                *)
(*  - TLC's integers are 32 bits wide, so the 64-bit quintuple of encode   *)
(*    is kept as its eight base-256 limbs, least significant first.        *)
(***************************************************************************)
EXTENDS Integers, Sequences, FiniteSets, TLC

(***************************************************************************)
(* Bounds of the model.                                                    *)
(***************************************************************************)
\* longest explicit byte buffer given to encode
MaxLen == 5
\* longest explicit string over CharVals given to decode
MaxStrLen == 4
\* uniform buffers have sizes within Slack of each ceiling
Slack == 5

(***************************************************************************)
(* Constants of base32.cpp and base32.hpp.                                 *)
(***************************************************************************)
gBitsPerByte == 8
gBytesPerB32Block == 5
gBitsPerB32Block == gBitsPerByte * gBytesPerB32Block

gB32Padding6 == 6
gB32Padding4 == 4
gB32Padding3 == 3
gB32Padding1 == 1

\* 64ULL * 1024 * 1024
gMaxEncodeInputLen == 67108864

gMaxDecodeBase32InputLen ==
    (gMaxEncodeInputLen * gBitsPerByte + 4) \div gBytesPerB32Block

\* enum class Error
NoError == "NoError"
InvalidB32Input == "InvalidB32Input"
MaxLengthExceeded == "MaxLengthExceeded"
EmptyString == "EmptyString"

\* character literals used by the code
PadChar == 61
SpaceChar == 32

\* the values of the build's char, a signed 8-bit type
Char == -128..127

(***************************************************************************)
(* Arithmetic of the fixed-width unsigned types.                           *)
(***************************************************************************)
RECURSIVE Pow2(_)
Pow2(n) == IF n = 0 THEN 1 ELSE 2 * Pow2(n - 1)

\* a | b on unsigned values
RECURSIVE BitOr(_, _)
BitOr(a, b) ==
    IF a = 0 THEN b
    ELSE IF b = 0 THEN a
    ELSE (IF a % 2 = 1 \/ b % 2 = 1 THEN 1 ELSE 0) + 2 * BitOr(a \div 2, b \div 2)

\* the value an int expression has once stored in a uint8_t
ToUint8(x) == x % 256

(***************************************************************************)
(* Buffers.                                                                *)
(***************************************************************************)
Explicit(seq) == [size |-> Len(seq), data |-> seq]
UniformBuf(n, c) == [size |-> n, data |-> <<c>>]
OpaqueBuf(n) == [size |-> n, data |-> << >>]
EmptyBuf == Explicit(<< >>)

Size(buf) == buf.size
IsExplicit(buf) == Len(buf.data) = buf.size
IsUniform(buf) == Len(buf.data) = 1 /\ buf.size > 1
IsOpaque(buf) == Len(buf.data) = 0 /\ buf.size > 0

\* buf[i], i counted from 0, for 0 <= i < size of a buffer that is not opaque
At(buf, i) == IF IsExplicit(buf) THEN buf.data[i + 1] ELSE buf.data[1]

\* std::array<T, n>::at(idx): bounds-checked, throws std::out_of_range; idx is
\* a size_t, which a negative char converts to a value far above n
ArrayAt(arr, n, idx, dflt) ==
    IF 0 <= idx /\ idx < n
    THEN [thrown |-> FALSE, value |-> arr[idx]]
    ELSE [thrown |-> TRUE, value |-> dflt]

(***************************************************************************)
(* Alphabet tables (base32.cpp lines 32-87).                               *)
(***************************************************************************)
\* std::array<uint8_t, 33> holding the 32 symbols and the literal's
\* terminating NUL
B32AlphabetLiteral ==
    <<65, 66, 67, 68, 69, 70, 71, 72, 73, 74, 75, 76, 77,
      78, 79, 80, 81, 82, 83, 84, 85, 86, 87, 88, 89, 90,
      50, 51, 52, 53, 54, 55, 0>>

\* std::size(gB32Alphabet)
AlphabetSize == Len(B32AlphabetLiteral)

gB32Alphabet == [i \in 0..(AlphabetSize - 1) |-> B32AlphabetLiteral[i + 1]]

gMaxAlphabetPosions == 128

RECURSIVE FillPositions(_, _)
FillPositions(table, i) ==
    IF i >= AlphabetSize THEN table
    ELSE FillPositions([table EXCEPT ![gB32Alphabet[i]] = i], i + 1)

buildPositionsInAlphabet ==
    FillPositions([c \in 0..(gMaxAlphabetPosions - 1) |-> 255], 0)

gPositionsInAlphabet == buildPositionsInAlphabet

RECURSIVE FillLookup(_, _)
FillLookup(table, i) ==
    IF i >= AlphabetSize THEN table
    ELSE FillLookup([table EXCEPT ![gB32Alphabet[i]] = TRUE], i + 1)

buildAlphabetLookupTable ==
    LET table == FillLookup([c \in 0..(gMaxAlphabetPosions - 1) |-> FALSE], 0)
    IN  [table EXCEPT ![PadChar] = TRUE]

gAlphabetLookupTable == buildAlphabetLookupTable

\* inAlphabet without its test of the sign
inAlphabetUnguarded(val) ==
    LET r == ArrayAt(gAlphabetLookupTable, gMaxAlphabetPosions, val, FALSE)
    IN  [thrown |-> r.thrown, value |-> r.value, probes |-> {val}]

\* [thrown, value, probes]: probes holds the index the table was probed with
inAlphabet(val) ==
    IF val < 0 THEN [thrown |-> FALSE, value |-> FALSE, probes |-> {}]
    ELSE LET r == ArrayAt(gAlphabetLookupTable, gMaxAlphabetPosions, val, FALSE)
         IN  [thrown |-> r.thrown, value |-> r.value, probes |-> {val}]

(***************************************************************************)
(* encode (base32.cpp lines 97-170).                                       *)
(***************************************************************************)
validateEncodeInput(userData) ==
    IF Size(userData) > gMaxEncodeInputLen THEN MaxLengthExceeded ELSE NoError

\* getPaddingBytesCount with the paddings of 16 and 24 bits exchanged
getPaddingBytesCountSwapped(userData) ==
    LET rem == (Size(userData) * 8) % gBitsPerB32Block
    IN  CASE rem = 0 -> [value |-> 0, ub |-> FALSE]
          [] rem = gBitsPerByte -> [value |-> gB32Padding6, ub |-> FALSE]
          [] rem = 2 * gBitsPerByte -> [value |-> gB32Padding3, ub |-> FALSE]
          [] rem = 3 * gBitsPerByte -> [value |-> gB32Padding4, ub |-> FALSE]
          [] rem = 4 * gBitsPerByte -> [value |-> gB32Padding1, ub |-> FALSE]
          [] OTHER -> [value |-> 0, ub |-> TRUE]

\* [value, ub]: ub is std::unreachable() being reached
getPaddingBytesCount(userData) ==
    LET userDataChars == Size(userData)
        totalBits == userDataChars * 8
        rem == totalBits % gBitsPerB32Block
    IN  CASE rem = 0 -> [value |-> 0, ub |-> FALSE]
          [] rem = gBitsPerByte -> [value |-> gB32Padding6, ub |-> FALSE]
          [] rem = 2 * gBitsPerByte -> [value |-> gB32Padding4, ub |-> FALSE]
          [] rem = 3 * gBitsPerByte -> [value |-> gB32Padding3, ub |-> FALSE]
          [] rem = 4 * gBitsPerByte -> [value |-> gB32Padding1, ub |-> FALSE]
          [] OTHER -> [value |-> 0, ub |-> TRUE]

\* the uint64_t 0
QuintupleZero == [l \in 1..8 |-> 0]

\* (quintuple << gBitsPerByte) | byte
ShiftInByte(quintuple, byte) ==
    [l \in 1..8 |-> IF l = 1 THEN byte ELSE quintuple[l - 1]]

\* (quintuple >> shift) & 0x1F
ShiftOutSymbol(quintuple, shift) ==
    LET lo == shift \div 8
        window == quintuple[lo + 1]
                  + 256 * (IF lo + 2 <= 8 THEN quintuple[lo + 2] ELSE 0)
    IN  (window \div Pow2(shift % 8)) % 32

\* the loop over k of line 152
RECURSIVE packQuintuple(_, _, _, _)
packQuintuple(userData, i, k, quintuple) ==
    IF k >= gBytesPerB32Block THEN quintuple
    ELSE packQuintuple(userData, i, k + 1,
             ShiftInByte(quintuple,
                 IF i + k < Size(userData) THEN At(userData, i + k) ELSE 0))

\* the loop over shift of line 158; acc is [data, j, thrown, symMax]
RECURSIVE emitSymbols(_, _, _)
emitSymbols(quintuple, shift, acc) ==
    IF shift < 0 \/ acc.thrown THEN acc
    ELSE LET sym == ShiftOutSymbol(quintuple, shift)
             chr == ArrayAt(gB32Alphabet, AlphabetSize, sym, 0)
             inRange == acc.j < Len(acc.data)
         IN  emitSymbols(quintuple, shift - gBytesPerB32Block,
                 [data   |-> IF inRange /\ ~chr.thrown
                             THEN [acc.data EXCEPT ![acc.j + 1] = chr.value]
                             ELSE acc.data,
                  j      |-> acc.j + 1,
                  thrown |-> chr.thrown \/ ~inRange,
                  symMax |-> IF sym > acc.symMax THEN sym ELSE acc.symMax])

\* the loop over i of line 149
RECURSIVE encodeChunks(_, _, _)
encodeChunks(userData, i, acc) ==
    IF i >= Size(userData) \/ acc.thrown THEN acc
    ELSE encodeChunks(userData, i + gBytesPerB32Block,
             emitSymbols(packQuintuple(userData, i, 0, QuintupleZero),
                         gBitsPerB32Block - gBytesPerB32Block, acc))

\* the loop of line 163: encodedData[outputLength + i] = '=' is unchecked
RECURSIVE fillPadding(_, _, _, _)
fillPadding(acc, outputLength, numOfEquals, i) ==
    IF i >= numOfEquals THEN acc
    ELSE LET idx == outputLength + i + 1
         IN  fillPadding([data |-> IF idx <= Len(acc.data)
                                   THEN [acc.data EXCEPT ![idx] = PadChar]
                                   ELSE acc.data,
                          ub   |-> acc.ub \/ idx > Len(acc.data)],
                         outputLength, numOfEquals, i + 1)

\* number of iterations of the loop of line 149
chunkCount(userDataChars) ==
    (userDataChars + gBytesPerB32Block - 1) \div gBytesPerB32Block

\* encode: [errCode, result, thrown, ub, symMax, written]; symMax is the
\* largest index gB32Alphabet.at() was given, written the final value of j
encode(userData) ==
    LET error == validateEncodeInput(userData)
    IN  IF error # NoError
        THEN [errCode |-> error, result |-> EmptyBuf, thrown |-> FALSE,
              ub |-> FALSE, symMax |-> 0, written |-> 0]
        ELSE
        LET userDataChars == Size(userData)
            outputLength == (userDataChars * 8 + 4) \div gBytesPerB32Block
            padding == getPaddingBytesCount(userData)
            numOfEquals == padding.value
            allocated == outputLength + numOfEquals
        IN  IF IsExplicit(userData)
            THEN LET blank == [p \in 1..allocated |-> 0]
                     body == encodeChunks(userData, 0,
                                 [data |-> blank, j |-> 0, thrown |-> FALSE,
                                  symMax |-> 0])
                     padded == fillPadding([data |-> body.data, ub |-> padding.ub],
                                           outputLength, numOfEquals, 0)
                 IN  [errCode |-> NoError,
                      result  |-> Explicit(padded.data),
                      thrown  |-> body.thrown,
                      ub      |-> padded.ub,
                      symMax  |-> body.symMax,
                      written |-> body.j]
            ELSE \* a uniform buffer: every full chunk is the chunk at i = 0,
                 \* so the first and the last iteration of the loop over i
                 \* show every symbol; the string is kept by its size alone
                 LET written == 8 * chunkCount(userDataChars)
                     start == [data |-> [p \in 1..8 |-> 0], j |-> 0,
                               thrown |-> FALSE, symMax |-> 0]
                     first == emitSymbols(
                                  packQuintuple(userData, 0, 0, QuintupleZero),
                                  gBitsPerB32Block - gBytesPerB32Block, start)
                     last == emitSymbols(
                                 packQuintuple(userData,
                                     gBytesPerB32Block
                                         * (chunkCount(userDataChars) - 1),
                                     0, QuintupleZero),
                                 gBitsPerB32Block - gBytesPerB32Block,
                                 [first EXCEPT !.j = 0])
                 IN  [errCode |-> NoError,
                      result  |-> OpaqueBuf(allocated),
                      thrown  |-> last.thrown \/ written > allocated,
                      ub      |-> padding.ub,
                      symMax  |-> last.symMax,
                      written |-> written]

(***************************************************************************)
(* decode (base32.cpp lines 177-259).                                      *)
(***************************************************************************)
\* validateDecodeInput comparing with >= instead of >
validateDecodeInputOffByOne(userData) ==
    IF Size(userData) >= gMaxDecodeBase32InputLen THEN MaxLengthExceeded
    ELSE NoError

validateDecodeInput(userData) ==
    IF Size(userData) > gMaxDecodeBase32InputLen THEN MaxLengthExceeded
    ELSE NoError

\* the reverse loop of line 196 on an explicit string
RECURSIVE stripPadding(_, _)
stripPadding(userData, userDataChars) ==
    IF userDataChars > 0 /\ At(userData, userDataChars - 1) = PadChar
    THEN stripPadding(userData, userDataChars - 1)
    ELSE userDataChars

\* on a uniform string the loop strips every character or none
getPayloadSize(userData) ==
    IF IsExplicit(userData) THEN stripPadding(userData, Size(userData))
    ELSE IF At(userData, Size(userData) - 1) = PadChar THEN 0
    ELSE Size(userData)

\* the capacity decode reserves, line 253
decodeOutputLength(userDataChars) ==
    IF userDataChars > 0 THEN (5 * userDataChars - 4) \div 8 ELSE 0

\* the locals of decodePayload on entry to its loop; accepted (the number of
\* characters fed to the accumulator) and probes (the indices the two tables
\* were probed with) are history, not locals of the code
decodeLocals ==
    [i |-> 0, mask |-> 0, currentByte |-> 0, bitsLeft |-> gBitsPerByte,
     decodedData |-> << >>, charIndex |-> 0, accepted |-> 0, probes |-> {},
     outcome |-> "continue"]

\* lines 229-240: the accepted character chr enters the accumulator
feedSymbol(st, chr) ==
    LET pos == ArrayAt(gPositionsInAlphabet, gMaxAlphabetPosions, chr, 0)
        charIndex == pos.value
        seen == st.probes \cup {chr}
    IN  IF pos.thrown
        THEN [st EXCEPT !.probes = seen, !.outcome = "thrown"]
        ELSE IF st.bitsLeft > gBytesPerB32Block
        THEN LET mask == ToUint8(charIndex * Pow2(st.bitsLeft - gBytesPerB32Block))
             IN  [st EXCEPT !.i = st.i + 1,
                            !.charIndex = charIndex,
                            !.mask = mask,
                            !.currentByte = BitOr(st.currentByte, mask),
                            !.bitsLeft = st.bitsLeft - gBytesPerB32Block,
                            !.accepted = st.accepted + 1,
                            !.probes = seen]
        ELSE LET mask == ToUint8(charIndex \div Pow2(gBytesPerB32Block - st.bitsLeft))
             IN  [st EXCEPT !.i = st.i + 1,
                            !.charIndex = charIndex,
                            !.mask = mask,
                            !.decodedData = Append(st.decodedData,
                                                   BitOr(st.currentByte, mask)),
                            !.currentByte =
                                ToUint8(charIndex * Pow2(gBitsPerByte
                                            - gBytesPerB32Block + st.bitsLeft)),
                            !.bitsLeft = st.bitsLeft + gBitsPerByte
                                         - gBytesPerB32Block,
                            !.accepted = st.accepted + 1,
                            !.probes = seen]

\* decodeIteration in which a space takes a bit slot like a symbol
decodeIterationSpaceFed(userData, st) ==
    LET chr == At(userData, st.i)
    IN  IF chr = SpaceChar
        THEN [st EXCEPT !.i = st.i + 1,
                        !.bitsLeft = IF st.bitsLeft > gBytesPerB32Block
                                     THEN st.bitsLeft - gBytesPerB32Block
                                     ELSE st.bitsLeft + gBitsPerByte
                                          - gBytesPerB32Block]
        ELSE LET known == inAlphabet(chr)
                 seen == st.probes \cup known.probes
             IN  IF known.thrown
                 THEN [st EXCEPT !.probes = seen, !.outcome = "thrown"]
                 ELSE IF ~known.value
                 THEN [st EXCEPT !.probes = seen, !.outcome = "invalid"]
                 ELSE feedSymbol([st EXCEPT !.probes = seen], chr)

\* one iteration of the loop of line 221, at index st.i < userDataChars
decodeIteration(userData, st) ==
    LET chr == At(userData, st.i)
    IN  IF chr = SpaceChar THEN [st EXCEPT !.i = st.i + 1]
        ELSE LET known == inAlphabet(chr)
                 seen == st.probes \cup known.probes
             IN  IF known.thrown
                 THEN [st EXCEPT !.probes = seen, !.outcome = "thrown"]
                 ELSE IF ~known.value
                 THEN [st EXCEPT !.probes = seen, !.outcome = "invalid"]
                 ELSE feedSymbol([st EXCEPT !.probes = seen], chr)

\* the iterations from st.i on; over a uniform string of spaces every
\* remaining iteration is the `continue` of line 223, taken here at once
decodeAdvance(userData, userDataChars, st) ==
    IF IsUniform(userData) /\ At(userData, st.i) = SpaceChar
    THEN [st EXCEPT !.i = userDataChars]
    ELSE decodeIteration(userData, st)

RECURSIVE decodeLoop(_, _, _)
decodeLoop(userData, userDataChars, st) ==
    IF st.i >= userDataChars \/ st.outcome # "continue" THEN st
    ELSE decodeLoop(userData, userDataChars,
                    decodeAdvance(userData, userDataChars, st))

\* decodePayload: [error, decodedData, thrown]
decodePayload(userData, userDataChars) ==
    LET st == decodeLoop(userData, userDataChars, decodeLocals)
    IN  [error       |-> IF st.outcome = "invalid" THEN InvalidB32Input
                         ELSE NoError,
         decodedData |-> st.decodedData,
         thrown      |-> st.outcome = "thrown"]

\* decode: [errCode, result, thrown]
decode(userData) ==
    LET error == validateDecodeInput(userData)
    IN  IF error # NoError
        THEN [errCode |-> error, result |-> EmptyBuf, thrown |-> FALSE]
        ELSE LET payload == decodePayload(userData, getPayloadSize(userData))
             IN  [errCode |-> payload.error,
                  result  |-> Explicit(payload.decodedData),
                  thrown  |-> payload.thrown]

(***************************************************************************)
(* The caller, as the tests are written: with a fresh Error slot it calls   *)
(* encode or decode on an input of its own, and may then hand what a call  *)
(* returned to the other function, passing the same Error slot.            *)
(***************************************************************************)
VARIABLES
    call,           \* "none", "encode" or "decode": the function last called
    pc,             \* "ready", "loop" (inside decodePayload), "returned", "thrown"
    userData,       \* the argument of the call
    origin,         \* <<b>> when userData is what encode returned for b, else << >>
    errCode,        \* the caller's Error slot
    result,         \* the value the call returned
    ub,             \* the call executed undefined behaviour
    symMax,         \* encode: the largest index given to gB32Alphabet.at()
    written,        \* encode: the final value of j
    userDataChars,  \* decode: the payload size
    reserved,       \* decode: the capacity asked of decodedData.reserve()
    i, mask, currentByte, bitsLeft, decodedData, charIndex,
                    \* the locals of decodePayload
    accepted,       \* decode: the number of characters fed to the accumulator
    probes          \* decode: the indices the two tables were probed with

vars == <<call, pc, userData, origin, errCode, result, ub, symMax, written,
          userDataChars, reserved, i, mask, currentByte, bitsLeft, decodedData,
          charIndex, accepted, probes>>

locals == [i |-> i, mask |-> mask, currentByte |-> currentByte,
           bitsLeft |-> bitsLeft, decodedData |-> decodedData,
           charIndex |-> charIndex, accepted |-> accepted, probes |-> probes,
           outcome |-> "continue"]

SetLocals(st) ==
    /\ i' = st.i
    /\ mask' = st.mask
    /\ currentByte' = st.currentByte
    /\ bitsLeft' = st.bitsLeft
    /\ decodedData' = st.decodedData
    /\ charIndex' = st.charIndex
    /\ accepted' = st.accepted
    /\ probes' = st.probes

(***************************************************************************)
(* The inputs the caller draws from.                                       *)
(***************************************************************************)
SeqsUpTo(S, n) == UNION {[1..k -> S] : k \in 0..n}

\* byte values of the enumerated buffers: 0x00, 'f', 0xFF
ByteVals == {0, 102, 255}

\* "f", "fo", "foo", "foob", "fooba", "foobar", {0,0,0,0}, "0000"
EncodeVectors ==
    { <<102>>, <<102, 111>>, <<102, 111, 111>>, <<102, 111, 111, 98>>,
      <<102, 111, 111, 98, 97>>, <<102, 111, 111, 98, 97, 114>>,
      <<0, 0, 0, 0>>, <<48, 48, 48, 48>> }

EncodeInputs ==
    {Explicit(s) : s \in SeqsUpTo(ByteVals, MaxLen) \cup EncodeVectors}
    \cup {UniformBuf(n, SpaceChar) :
            n \in (gMaxEncodeInputLen - Slack)..(gMaxEncodeInputLen + Slack)}

\* characters of the enumerated strings: 'A', '7', ' ', '=', '!', NUL
CharVals == {65, 55, SpaceChar, PadChar, 33, 0}

\* "MY======", "MZXQ====", "MZXW6===", "MZXW6YQ=", "MZXW6YTB", "AAAAAAA="
DecodeVectors ==
    { <<77, 89, 61, 61, 61, 61, 61, 61>>, <<77, 90, 88, 81, 61, 61, 61, 61>>,
      <<77, 90, 88, 87, 54, 61, 61, 61>>, <<77, 90, 88, 87, 54, 89, 81, 61>>,
      <<77, 90, 88, 87, 54, 89, 84, 66>>, <<65, 65, 65, 65, 65, 65, 65, 61>> }

InsertSpace(s, p) == SubSeq(s, 1, p) \o <<SpaceChar>> \o SubSeq(s, p + 1, Len(s))

\* "MZ XW 6Y TB" and every vector with one space put in
SpacedVectors ==
    { <<77, 90, 32, 88, 87, 32, 54, 89, 32, 84, 66>> }
    \cup {InsertSpace(s, p) : s \in DecodeVectors, p \in 0..8}

DecodeInputs ==
    {Explicit(s) : s \in SeqsUpTo(CharVals, MaxStrLen) \cup DecodeVectors
                         \cup SpacedVectors
                         \cup {<<c>> : c \in Char}
                         \cup {<<65, 65, c>> : c \in Char}}
    \cup {UniformBuf(n, c) :
            n \in (gMaxDecodeBase32InputLen - Slack)
                  ..(gMaxDecodeBase32InputLen + Slack),
            c \in {SpaceChar, PadChar, 33}}

(***************************************************************************)
(* Actions.                                                                *)
(***************************************************************************)
Init ==
    /\ call = "none"
    /\ pc = "ready"
    /\ userData = EmptyBuf
    /\ origin = << >>
    /\ errCode = NoError
    /\ result = EmptyBuf
    /\ ub = FALSE
    /\ symMax = 0
    /\ written = 0
    /\ userDataChars = 0
    /\ reserved = 0
    /\ i = 0
    /\ mask = 0
    /\ currentByte = 0
    /\ bitsLeft = gBitsPerByte
    /\ decodedData = << >>
    /\ charIndex = 0
    /\ accepted = 0
    /\ probes = {}

\* encode(bytes, errCode), lines 138-170
EncodeEnter(bytes) ==
    /\ LET r == encode(bytes)
       IN  /\ call' = "encode"
           /\ userData' = bytes
           /\ origin' = << >>
           /\ pc' = IF r.thrown THEN "thrown" ELSE "returned"
           /\ errCode' = IF r.thrown THEN errCode ELSE r.errCode
           /\ result' = IF r.thrown THEN EmptyBuf ELSE r.result
           /\ ub' = r.ub
           /\ symMax' = r.symMax
           /\ written' = r.written
    /\ userDataChars' = 0
    /\ reserved' = 0
    /\ SetLocals(decodeLocals)

\* the caller encodes a buffer of its own
Encode(bytes) ==
    /\ pc = "ready"
    /\ EncodeEnter(bytes)

\* the caller encodes the bytes decode has just returned
EncodeDecoded ==
    /\ pc = "returned"
    /\ call = "decode"
    /\ EncodeEnter(result)

\* decode(str, errCode) up to the first iteration of decodePayload's loop,
\* lines 246-256 and 218-220
DecodeEnter(str, from) ==
    /\ call' = "decode"
    /\ userData' = str
    /\ origin' = from
    /\ result' = EmptyBuf
    /\ ub' = FALSE
    /\ symMax' = 0
    /\ written' = 0
    /\ SetLocals(decodeLocals)
    /\ LET error == validateDecodeInput(str)
       IN  IF error # NoError
           THEN /\ errCode' = error
                /\ pc' = "returned"
                /\ userDataChars' = 0
                /\ reserved' = 0
           ELSE /\ errCode' = errCode
                /\ pc' = "loop"
                /\ userDataChars' = getPayloadSize(str)
                /\ reserved' = decodeOutputLength(getPayloadSize(str))

\* the caller decodes a string of its own
DecodeCall(str) ==
    /\ pc = "ready"
    /\ DecodeEnter(str, << >>)

\* the caller decodes the string encode has just returned
DecodeEncoded ==
    /\ pc = "returned"
    /\ call = "encode"
    /\ ~IsOpaque(result) \/ validateDecodeInput(result) # NoError
    /\ DecodeEnter(result, <<userData>>)

\* one pass through the body of the loop of line 221
DecodeStep ==
    /\ pc = "loop"
    /\ i < userDataChars
    /\ LET st == decodeAdvance(userData, userDataChars, locals)
       IN  /\ SetLocals(st)
           /\ CASE st.outcome = "continue" ->
                     /\ pc' = "loop"
                     /\ UNCHANGED <<errCode, result>>
                [] st.outcome = "invalid" ->
                     \* line 227, then lines 256-258
                     /\ pc' = "returned"
                     /\ errCode' = InvalidB32Input
                     /\ result' = Explicit(st.decodedData)
                [] st.outcome = "thrown" ->
                     /\ pc' = "thrown"
                     /\ UNCHANGED <<errCode, result>>
    /\ UNCHANGED <<call, userData, origin, ub, symMax, written, userDataChars,
                   reserved>>

\* the loop ends: line 243, then lines 256-258
DecodeReturn ==
    /\ pc = "loop"
    /\ i >= userDataChars
    /\ pc' = "returned"
    /\ errCode' = NoError
    /\ result' = Explicit(decodedData)
    /\ UNCHANGED <<call, userData, origin, ub, symMax, written, userDataChars,
                   reserved, i, mask, currentByte, bitsLeft, decodedData, charIndex,
                   accepted, probes>>

Next ==
    \/ \E bytes \in EncodeInputs : Encode(bytes)
    \/ EncodeDecoded
    \/ \E str \in DecodeInputs : DecodeCall(str)
    \/ DecodeEncoded
    \/ DecodeStep
    \/ DecodeReturn

Spec == Init /\ [][Next]_vars

(***************************************************************************)
(* What the claims are stated with.                                        *)
(***************************************************************************)
Returned(fn) == call = fn /\ pc = "returned"

\* the RFC 4648 base-32 alphabet, "A".."Z" then "2".."7"
RFC4648Alphabet ==
    <<65, 66, 67, 68, 69, 70, 71, 72, 73, 74, 75, 76, 77,
      78, 79, 80, 81, 82, 83, 84, 85, 86, 87, 88, 89, 90,
      50, 51, 52, 53, 54, 55>>

Symbols == {RFC4648Alphabet[k] : k \in 1..32}

SymbolIndex(c) == (CHOOSE k \in 1..32 : RFC4648Alphabet[k] = c) - 1

\* bit p of the buffer, most significant bit of the first byte first, 0 past
\* the end
BitOf(bytes, p) ==
    IF p \div 8 >= Len(bytes) THEN 0
    ELSE (bytes[p \div 8 + 1] \div Pow2(7 - (p % 8))) % 2

\* the value of bits 5k .. 5k+4
GroupValue(bytes, k) ==
    16 * BitOf(bytes, 5 * k) + 8 * BitOf(bytes, 5 * k + 1)
    + 4 * BitOf(bytes, 5 * k + 2) + 2 * BitOf(bytes, 5 * k + 3)
    + BitOf(bytes, 5 * k + 4)

RefSymbolCount(n) == (8 * n + 4) \div 5

RefPadCount(n) ==
    CASE n % 5 = 0 -> 0
      [] n % 5 = 1 -> 6
      [] n % 5 = 2 -> 4
      [] n % 5 = 3 -> 3
      [] n % 5 = 4 -> 1

\* the RFC 4648 encoding of an explicit byte sequence
RefEncode(bytes) ==
    [k \in 1..RefSymbolCount(Len(bytes)) |->
        RFC4648Alphabet[GroupValue(bytes, k - 1) + 1]]
    \o [p \in 1..RefPadCount(Len(bytes)) |-> PadChar]

\* the characters of a buffer that is not opaque
CharsOf(buf) == {buf.data[p] : p \in 1..Len(buf.data)}

WithinDecodeCeiling(buf) == Size(buf) <= gMaxDecodeBase32InputLen
WithinEncodeCeiling(buf) == Size(buf) <= gMaxEncodeInputLen

RemoveSpaces(s) == SelectSeq(s, LAMBDA c : c # SpaceChar)

\* symbols and spaces, then nothing but pad characters
SpacedSymbolsThenPads(s) ==
    \E k \in 0..Len(s) :
        /\ \A p \in 1..k : s[p] \in Symbols \cup {SpaceChar}
        /\ \A p \in (k + 1)..Len(s) : s[p] = PadChar

(***************************************************************************)
(* C1.  Round trip: for every byte buffer b of at most MAX_ENCODE_LEN      *)
(* bytes, encode(b) sets NoError, and decode of the string encode          *)
(* returned sets NoError and returns exactly b.                            *)
(* Violated: the encoding of 67108864 bytes is 107374184 characters, one   *)
(* more than the decode ceiling.                                           *)
(***************************************************************************)
C1_RoundTrip ==
    /\ (Returned("encode") /\ WithinEncodeCeiling(userData))
          => errCode = NoError
    /\ (Returned("decode") /\ origin # << >> /\ WithinEncodeCeiling(origin[1]))
          => (errCode = NoError /\ result = origin[1])

(***************************************************************************)
(* C2.  encode is the RFC 4648 encoder: for n bytes within the ceiling it  *)
(* returns floor((8n+4)/5) symbols, the k-th being the alphabet character  *)
(* of bits 5k..5k+4, then 0/6/4/3/1 pad characters for n mod 5 =           *)
(* 0/1/2/3/4; the length is a multiple of 8 when n > 0 and 0 when n = 0.   *)
(***************************************************************************)
C2_EncodeIsRFC4648 ==
    (call = "encode" /\ pc # "ready" /\ WithinEncodeCeiling(userData)) =>
        LET n == Size(userData)
        IN  /\ pc = "returned"
            /\ errCode = NoError
            /\ Size(result) = RefSymbolCount(n) + RefPadCount(n)
            /\ n > 0 => Size(result) % 8 = 0
            /\ n = 0 => Size(result) = 0
            /\ IsExplicit(userData) => result = Explicit(RefEncode(userData.data))
            /\ userData = Explicit(<<102>>)
                  => result.data = <<77, 89, 61, 61, 61, 61, 61, 61>>
            /\ userData = Explicit(<<0, 0, 0, 0>>)
                  => result.data = <<65, 65, 65, 65, 65, 65, 65, 61>>

\* "foobar" has been encoded to "MZXW6YTBOI======"
C2_Witness ==
    /\ Returned("encode")
    /\ userData = Explicit(<<102, 111, 111, 98, 97, 114>>)
    /\ result = Explicit(<<77, 90, 88, 87, 54, 89, 84, 66, 79, 73,
                           61, 61, 61, 61, 61, 61>>)

(***************************************************************************)
(* C3.  Invalid-character rejection: decode of a string within the ceiling *)
(* that holds a character outside A-Z, 2-7, '=' and ' ' sets               *)
(* InvalidB32Input and returns an empty buffer.                            *)
(* Violated: the NUL character is accepted, and an invalid character after *)
(* decoded ones leaves the bytes decoded so far in the result.             *)
(***************************************************************************)
C3_InvalidCharacterRejected ==
    (/\ Returned("decode")
     /\ WithinDecodeCeiling(userData)
     /\ ~IsOpaque(userData)
     /\ CharsOf(userData) \ (Symbols \cup {PadChar, SpaceChar}) # {})
        => (errCode = InvalidB32Input /\ result = EmptyBuf)

(***************************************************************************)
(* C4.  Size ceilings: encode of more than MAX_ENCODE_LEN bytes and decode *)
(* of more than MAX_DECODE_LEN characters set MaxLengthExceeded and return *)
(* an empty result whatever the content, decode before it parses anything; *)
(* an input at or below its ceiling never gets MaxLengthExceeded.          *)
(***************************************************************************)
C4_SizeCeilings ==
    /\ Returned("encode") =>
          IF Size(userData) > gMaxEncodeInputLen
          THEN errCode = MaxLengthExceeded /\ result = EmptyBuf
          ELSE errCode # MaxLengthExceeded
    /\ Returned("decode") =>
          IF Size(userData) > gMaxDecodeBase32InputLen
          THEN /\ errCode = MaxLengthExceeded
               /\ result = EmptyBuf
               /\ probes = {}
               /\ i = 0
          ELSE errCode # MaxLengthExceeded
    /\ (call = "decode" /\ pc = "loop") => WithinDecodeCeiling(userData)

\* an over-long string of invalid characters got MaxLengthExceeded
C4_Witness ==
    /\ Returned("decode")
    /\ Size(userData) = gMaxDecodeBase32InputLen + 1
    /\ CharsOf(userData) = {33}
    /\ errCode = MaxLengthExceeded
    /\ result = EmptyBuf

(***************************************************************************)
(* C5.  The decode ceiling admits every encoder output: for a buffer of at *)
(* most MAX_ENCODE_LEN bytes the string encode returns, pads included, is  *)
(* at most MAX_DECODE_LEN = floor((MAX_ENCODE_LEN*8+4)/5) characters, and  *)
(* decoding it never gives MaxLengthExceeded.                              *)
(* Violated for the 67108861 .. 67108864 byte buffers.                     *)
(***************************************************************************)
C5_DecodeCeilingAdmitsEncoding ==
    /\ gMaxDecodeBase32InputLen = (gMaxEncodeInputLen * 8 + 4) \div 5
    /\ (Returned("encode") /\ WithinEncodeCeiling(userData))
          => Size(result) <= gMaxDecodeBase32InputLen
    /\ (Returned("decode") /\ origin # << >> /\ WithinEncodeCeiling(origin[1]))
          => errCode # MaxLengthExceeded

(***************************************************************************)
(* C6.  decode of a string within the ceiling made only of spaces and pad  *)
(* characters, in any number and order, returns an empty buffer and sets   *)
(* NoError.                                                                *)
(* Violated: a pad character that is not trailing is fed to the            *)
(* accumulator, "== " decodes to the byte 255.                             *)
(***************************************************************************)
C6_SpacesAndPadsDecodeEmpty ==
    (/\ Returned("decode")
     /\ WithinDecodeCeiling(userData)
     /\ ~IsOpaque(userData)
     /\ CharsOf(userData) \subseteq {SpaceChar, PadChar})
        => (result = EmptyBuf /\ errCode = NoError)

(***************************************************************************)
(* C7.  Whitespace tolerance: when a string is alphabet symbols with       *)
(* spaces among them, followed by trailing pad characters only, decode     *)
(* returns the bytes and the error (NoError) it returns for the string     *)
(* with the spaces taken out.                                              *)
(***************************************************************************)
C7_WhitespaceTolerance ==
    (/\ call = "decode"
     /\ pc \in {"returned", "thrown"}
     /\ IsExplicit(userData)
     /\ SpacedSymbolsThenPads(userData.data))
        => LET plain == decode(Explicit(RemoveSpaces(userData.data)))
           IN  /\ pc = "returned"
               /\ errCode = NoError
               /\ plain.errCode = NoError
               /\ result = plain.result

\* "MZ XW 6Y TB" has been decoded to "fooba"
C7_Witness ==
    /\ Returned("decode")
    /\ userData = Explicit(<<77, 90, 32, 88, 87, 32, 54, 89, 32, 84, 66>>)
    /\ result = Explicit(<<102, 111, 111, 98, 97>>)
    /\ errCode = NoError

(***************************************************************************)
(* C8.  No out-of-range access, char being signed: nothing throws and no   *)
(* unchecked access or unreachable branch is taken; the alphabet is        *)
(* indexed with 0..31, the two tables are probed with 0..127 only, and     *)
(* every index encode writes is below the length it allocated.             *)
(***************************************************************************)
C8_NoOutOfRangeAccess ==
    /\ pc # "thrown"
    /\ ~ub
    /\ probes \subseteq 0..127
    /\ symMax \in 0..31
    /\ Returned("encode") => written <= Size(result)
    /\ reserved \in 0..userDataChars
    /\ (Returned("encode") /\ IsExplicit(result)) =>
          \A p \in 1..Size(result) : result.data[p] \in Symbols \cup {PadChar}

\* a string holding the byte 0x80 after two symbols has been decoded
C8_Witness ==
    /\ Returned("decode")
    /\ userData = Explicit(<<65, 65, -128>>)
    /\ probes = {65}
    /\ errCode = InvalidB32Input

(***************************************************************************)
(* C9.  Lookup tables: for every c in 0..127 the reverse-lookup entry is   *)
(* the position of c in the 32-character alphabet, or 255 when c is not in *)
(* it; the validity entry is true exactly for the 32 alphabet characters   *)
(* and '='.                                                                *)
(* Violated at c = 0: the tables are built from all 33 elements of         *)
(* gB32Alphabet, the terminating NUL included.                             *)
(***************************************************************************)
C9_LookupTables ==
    \A c \in 0..127 :
        /\ gPositionsInAlphabet[c]
              = (IF c \in Symbols THEN SymbolIndex(c) ELSE 255)
        /\ gAlphabetLookupTable[c] <=> c \in Symbols \cup {PadChar}

(***************************************************************************)
(* C10.  decodePayload's accumulator: after s characters have been fed,    *)
(* bitsLeft is in 1..8 and is 8 - (5s mod 8), floor(5s/8) bytes have been  *)
(* emitted, and every value fed is a symbol value in 0..31.                *)
(* Violated: '=' inside the payload feeds 255 and NUL feeds 32.            *)
(***************************************************************************)
C10_AccumulatorInvariant ==
    (call = "decode" /\ pc \in {"loop", "returned"}) =>
        /\ bitsLeft \in 1..8
        /\ bitsLeft = 8 - ((5 * accepted) % 8)
        /\ Len(decodedData) = (5 * accepted) \div 8
        /\ charIndex \in 0..31


=============================================================================
